---- MODULE Spec2Model ----
(***************************************************************************)
(* largest-file-finder (src/src/main.rs): the query expression engine      *)
(* (ParserExpr, Expr, Predicate, parse_size_bytes), the Matcher and the    *)
(* bounded top-K selector (consider_candidate over a BinaryHeap of         *)
(* Reverse<SizedPath>), as one state machine per entry point.              *)
(*                                                                         *)
(* Text is a sequence of one-character strings (all ASCII, so a byte       *)
(* offset is a character offset); a u64 is its decimal numeral, a sequence *)
(* of digits 0..9 without leading zeros, so that the full 64-bit range is  *)
(* kept.                                                                   *)
(***************************************************************************)
EXTENDS Integers, Sequences, FiniteSets, TLC

VARIABLES pc, args, matcher, top_files, results, offered, nrecords,
          s, i, parsed, tmpl, rec, verdict, evaluated

vars == <<pc, args, matcher, top_files, results, offered, nrecords,
          s, i, parsed, tmpl, rec, verdict, evaluated>>

(***************************************************************************)
(* Characters and strings                                                  *)
(***************************************************************************)

\* The printable ASCII characters in byte order, 0x20 .. 0x7E (0x60, the grave
\* accent, is spelled out: it appears in no input).
Ascii ==
  <<" ", "!", "\"", "#", "$", "%", "&", "'", "(", ")", "*", "+", ",", "-", ".", "/",
    "0", "1", "2", "3", "4", "5", "6", "7", "8", "9", ":", ";", "<", "=", ">", "?",
    "@", "A", "B", "C", "D", "E", "F", "G", "H", "I", "J", "K", "L", "M", "N", "O",
    "P", "Q", "R", "S", "T", "U", "V", "W", "X", "Y", "Z", "[", "\\", "]", "^", "_",
    "grave", "a", "b", "c", "d", "e", "f", "g", "h", "i", "j", "k", "l", "m", "n", "o",
    "p", "q", "r", "s", "t", "u", "v", "w", "x", "y", "z", "{", "|", "}", "~">>

\* The byte value of each character.
AsciiCode ==
  [c \in {Ascii[k] : k \in 1..Len(Ascii)} |->
     31 + (CHOOSE k \in 1..Len(Ascii) : Ascii[k] = c)]

Code(c) == AsciiCode[c]

\* char::is_whitespace, on the characters of the model.
IsWhitespace(c) == c = " "

\* char::is_ascii_digit
IsAsciiDigit(c) == Code(c) >= 48 /\ Code(c) <= 57

\* char::is_alphanumeric, on ASCII.
IsAlphanumeric(c) ==
  \/ IsAsciiDigit(c)
  \/ Code(c) >= 65 /\ Code(c) <= 90
  \/ Code(c) >= 97 /\ Code(c) <= 122

\* char::to_ascii_lowercase
ToAsciiLowercase(c) ==
  IF Code(c) >= 65 /\ Code(c) <= 90 THEN Ascii[Code(c) + 32 - 31] ELSE c

\* str::to_ascii_lowercase
LowerStr(t) == [k \in 1..Len(t) |-> ToAsciiLowercase(t[k])]

\* str::eq_ignore_ascii_case
EqIgnoreAsciiCase(a, b) == LowerStr(a) = LowerStr(b)

\* s[from..] as a sequence: the characters at byte offsets >= from.
StrFrom(t, from) == SubSeq(t, from + 1, Len(t))

\* str::starts_with
StartsWith(t, p) == Len(p) <= Len(t) /\ SubSeq(t, 1, Len(p)) = p

RECURSIVE TrimStart(_)
TrimStart(t) ==
  IF t # <<>> /\ IsWhitespace(Head(t)) THEN TrimStart(Tail(t)) ELSE t

RECURSIVE TrimEnd(_)
TrimEnd(t) ==
  IF t # <<>> /\ IsWhitespace(t[Len(t)]) THEN TrimEnd(SubSeq(t, 1, Len(t) - 1)) ELSE t

\* str::trim
Trim(t) == TrimEnd(TrimStart(t))

\* Ordering of two byte strings, as Ord for str / OsStr: "Less", "Equal", "Greater".
RECURSIVE ByteCmp(_, _)
ByteCmp(a, b) ==
  IF a = <<>> /\ b = <<>> THEN "Equal"
  ELSE IF a = <<>> THEN "Less"
  ELSE IF b = <<>> THEN "Greater"
  ELSE IF Code(Head(a)) < Code(Head(b)) THEN "Less"
  ELSE IF Code(Head(a)) > Code(Head(b)) THEN "Greater"
  ELSE ByteCmp(Tail(a), Tail(b))

(***************************************************************************)
(* u64 values as decimal numerals                                          *)
(***************************************************************************)

\* u64::MAX = 18446744073709551615
U64Max == <<1, 8, 4, 4, 6, 7, 4, 4, 0, 7, 3, 7, 0, 9, 5, 5, 1, 6, 1, 5>>

RECURSIVE StripZeros(_)
StripZeros(d) ==
  IF Len(d) > 1 /\ Head(d) = 0 THEN StripZeros(Tail(d)) ELSE d

RECURSIVE DigitsCmp(_, _)
DigitsCmp(a, b) ==
  IF a = <<>> THEN "Equal"
  ELSE IF Head(a) < Head(b) THEN "Less"
  ELSE IF Head(a) > Head(b) THEN "Greater"
  ELSE DigitsCmp(Tail(a), Tail(b))

\* Ord for u64 (and for the unbounded product before the overflow check).
NumCmp(a, b) ==
  IF Len(a) < Len(b) THEN "Less"
  ELSE IF Len(a) > Len(b) THEN "Greater"
  ELSE DigitsCmp(a, b)

Reverse(q) == [k \in 1..Len(q) |-> q[Len(q) + 1 - k]]

\* Little-endian addition with carry.
RECURSIVE AddLE(_, _, _)
AddLE(a, b, c) ==
  IF a = <<>> /\ b = <<>> THEN (IF c = 0 THEN <<>> ELSE <<c>>)
  ELSE LET x == IF a = <<>> THEN 0 ELSE Head(a)
           y == IF b = <<>> THEN 0 ELSE Head(b)
           t == x + y + c
       IN  <<t % 10>> \o AddLE(IF a = <<>> THEN <<>> ELSE Tail(a),
                               IF b = <<>> THEN <<>> ELSE Tail(b), t \div 10)

\* Little-endian product with one digit.
RECURSIVE MulDigitLE(_, _, _)
MulDigitLE(a, d, c) ==
  IF a = <<>> THEN (IF c = 0 THEN <<>> ELSE <<c>>)
  ELSE LET t == Head(a) * d + c
       IN  <<t % 10>> \o MulDigitLE(Tail(a), d, t \div 10)

RECURSIVE MulLE(_, _)
MulLE(a, b) ==
  IF b = <<>> THEN <<>>
  ELSE AddLE(MulDigitLE(a, Head(b), 0), <<0>> \o MulLE(a, Tail(b)), 0)

\* The exact (unbounded) product of two numerals.
NumMul(a, b) == StripZeros(<<0>> \o Reverse(MulLE(Reverse(a), Reverse(b))))

FitsU64(n) == NumCmp(n, U64Max) # "Greater"

\* Option<T>: Some(v) and None.
Some(v) == [some |-> TRUE, val |-> v]
None == [some |-> FALSE]

\* let v = ...; K(v)
With(v, K(_)) == K(v)

\* The ? operator: K(r) for an Ok r, and r itself, the error, otherwise.
Then(r, K(_)) == IF r.ok THEN K(r) ELSE r

\* u64::checked_mul: the product, or None on overflow.
CheckedMul(a, b) ==
  With(NumMul(a, b), LAMBDA p : IF FitsU64(p) THEN Some(p) ELSE None)

\* 1024_u64.pow(k)
RECURSIVE Pow1024(_)
Pow1024(k) == IF k = 0 THEN <<1>> ELSE NumMul(<<1, 0, 2, 4>>, Pow1024(k - 1))

(***************************************************************************)
(* std::path: a path compares by its components, not by its bytes          *)
(* (Ord for PathBuf is compare_components(self.components(), ...)).  On    *)
(* Unix, components() yields RootDir for a leading '/', skips empty        *)
(* components (repeated or trailing separators) and '.' components other   *)
(* than a leading one of a relative path, and yields ParentDir for '..'.   *)
(* Component derives Ord in the order Prefix < RootDir < CurDir <          *)
(* ParentDir < Normal, a Normal comparing by its bytes.                    *)
(***************************************************************************)

\* The pieces of t between '/' separators, empty ones included.
RECURSIVE SplitSlash(_, _)
SplitSlash(t, cur) ==
  IF t = <<>> THEN <<cur>>
  ELSE IF Head(t) = "/" THEN <<cur>> \o SplitSlash(Tail(t), <<>>)
  ELSE SplitSlash(Tail(t), Append(cur, Head(t)))

HasRoot(p) == p # <<>> /\ p[1] = "/"

IncludeCurDir(p) ==
  /\ ~HasRoot(p)
  /\ \/ p = <<".">>
     \/ Len(p) >= 2 /\ p[1] = "." /\ p[2] = "/"

RECURSIVE PieceComponents(_, _, _)
PieceComponents(pieces, k, curdir) ==
  IF k > Len(pieces) THEN <<>>
  ELSE LET x == pieces[k]
           c == IF x = <<>> THEN <<>>
                ELSE IF x = <<".">>
                  THEN (IF k = 1 /\ curdir THEN <<[kind |-> 2, name |-> <<>>]>> ELSE <<>>)
                ELSE IF x = <<".", ".">> THEN <<[kind |-> 3, name |-> <<>>]>>
                ELSE <<[kind |-> 4, name |-> x]>>
       IN  c \o PieceComponents(pieces, k + 1, curdir)

\* Path::components, collected.
Components(p) ==
  IF p = <<>> THEN <<>>
  ELSE (IF HasRoot(p) THEN <<[kind |-> 1, name |-> <<>>]>> ELSE <<>>)
       \o PieceComponents(SplitSlash(p, <<>>), 1, IncludeCurDir(p))

\* Ord for Component (derived).
ComponentCmp(a, b) ==
  IF a.kind < b.kind THEN "Less"
  ELSE IF a.kind > b.kind THEN "Greater"
  ELSE ByteCmp(a.name, b.name)

\* Iterator::cmp over two component sequences.
RECURSIVE CompareComponents(_, _)
CompareComponents(a, b) ==
  IF a = <<>> /\ b = <<>> THEN "Equal"
  ELSE IF a = <<>> THEN "Less"
  ELSE IF b = <<>> THEN "Greater"
  ELSE LET c == ComponentCmp(Head(a), Head(b))
       IN  IF c # "Equal" THEN c ELSE CompareComponents(Tail(a), Tail(b))

\* Ord for PathBuf: a.cmp(&b).
PathCmp(a, b) == CompareComponents(Components(a), Components(b))

(***************************************************************************)
(* SizedPath and the selector                                              *)
(***************************************************************************)

\* impl Ord for SizedPath: self.size.cmp(&other.size)
\*   .then_with(|| other.path.cmp(&self.path))
SizedPathCmp(self, other) ==
  LET c == NumCmp(self.size, other.size)
  IN  IF c # "Equal" THEN c ELSE PathCmp(other.path, self.path)

\* Reverse(a) <= Reverse(b), the order of the heap's elements.
RevLe(a, b) == SizedPathCmp(b, a) # "Greater"

\* BinaryHeap::sift_up(start, pos) with the hole's element e (positions from 0).
RECURSIVE SiftUp(_, _, _, _)
SiftUp(data, start, pos, e) ==
  IF pos > start
    THEN LET parent == (pos - 1) \div 2
         IN  IF RevLe(e, data[parent + 1])
               THEN [data EXCEPT ![pos + 1] = e]
               ELSE SiftUp([data EXCEPT ![pos + 1] = data[parent + 1]], start, parent, e)
    ELSE [data EXCEPT ![pos + 1] = e]

\* BinaryHeap::push
HeapPush(data, item) == SiftUp(Append(data, item), 0, Len(data), item)

\* BinaryHeap::sift_down_to_bottom(0): the hole goes down along the greater
\* children to the bottom, then its element is sifted up.
RECURSIVE SiftDownToBottom(_, _, _)
SiftDownToBottom(data, pos, e) ==
  LET end == Len(data)
      child == 2 * pos + 1
  IN  IF end >= 2 /\ child <= end - 2
        THEN LET c == IF RevLe(data[child + 1], data[child + 2]) THEN child + 1 ELSE child
             IN  SiftDownToBottom([data EXCEPT ![pos + 1] = data[c + 1]], c, e)
        ELSE IF child = end - 1
          THEN SiftUp([data EXCEPT ![pos + 1] = data[child + 1]], 0, child, e)
          ELSE SiftUp(data, 0, pos, e)

\* BinaryHeap::pop: the heap after the pop (the popped element is data[1]).
HeapPop(data) ==
  IF data = <<>> THEN data
  ELSE LET item == data[Len(data)]
           rest == SubSeq(data, 1, Len(data) - 1)
       IN  IF rest = <<>> THEN rest ELSE SiftDownToBottom(rest, 0, item)

\* BinaryHeap::peek: the greatest Reverse<SizedPath>, the lowest-ranked candidate.
HeapPeek(data) == data[1]

\* An operator with the parameters of consider_candidate that inserts without
\* ever evicting.
consider_candidate_no_evict(heap, top_n, candidate) == HeapPush(heap, candidate)

\* consider_candidate: the heap after the call.
consider_candidate(heap, top_n, candidate) ==
  IF Len(heap) < top_n
    THEN HeapPush(heap, candidate)
    ELSE IF heap # <<>> /\ SizedPathCmp(candidate, HeapPeek(heap)) = "Greater"
      THEN HeapPush(HeapPop(heap), candidate)
      ELSE heap

\* The comparator of results.sort_by:
\*   b.size.cmp(&a.size).then_with(|| a.path.cmp(&b.path))
ResultCmp(a, b) ==
  LET c == NumCmp(b.size, a.size)
  IN  IF c # "Equal" THEN c ELSE PathCmp(a.path, b.path)

\* x inserted into the sorted sequence q after every element not greater than it.
RECURSIVE InsertStable(_, _)
InsertStable(q, x) ==
  IF q = <<>> THEN <<x>>
  ELSE IF ResultCmp(x, Head(q)) = "Less" THEN <<x>> \o q
  ELSE <<Head(q)>> \o InsertStable(Tail(q), x)

\* slice::sort_by, a stable sort.
RECURSIVE SortBy(_)
SortBy(q) ==
  IF q = <<>> THEN <<>>
  ELSE InsertStable(SortBy(SubSeq(q, 1, Len(q) - 1)), q[Len(q)])

\* main, lines 226-231: the heap drained in its vector's order, then sorted.
DrainSorted(heap) == SortBy(heap)

(***************************************************************************)
(* parse_size_bytes                                                        *)
(***************************************************************************)

Ok(v) == [ok |-> TRUE, val |-> v]
Err(m) == [ok |-> FALSE, msg |-> m]

\* The number of leading ASCII digits of t (digits_end).
RECURSIVE DigitsEnd(_)
DigitsEnd(t) ==
  IF t # <<>> /\ IsAsciiDigit(Head(t)) THEN 1 + DigitsEnd(Tail(t)) ELSE 0

\* str::parse::<u64> on a non-empty run of ASCII digits: an error when the value
\* exceeds u64::MAX.
ParseU64(d) ==
  With(StripZeros([k \in 1..Len(d) |-> Code(d[k]) - 48]),
       LAMBDA n : IF FitsU64(n) THEN Ok(n)
                  ELSE Err("number too large to fit in target type"))

\* The unit table of parse_size_bytes: the power of 1024, None for an unknown unit.
UnitPower(unit) ==
  IF unit \in {<<>>, <<"b">>} THEN Some(0)
  ELSE IF unit \in {<<"k">>, <<"k", "b">>, <<"k", "i", "b">>} THEN Some(1)
  ELSE IF unit \in {<<"m">>, <<"m", "b">>, <<"m", "i", "b">>} THEN Some(2)
  ELSE IF unit \in {<<"g">>, <<"g", "b">>, <<"g", "i", "b">>} THEN Some(3)
  ELSE IF unit \in {<<"t">>, <<"t", "b">>, <<"t", "i", "b">>} THEN Some(4)
  ELSE None

\* u64 multiplication that wraps around: the product modulo 2^64 is not
\* computed, only the fact that no overflow is reported.
UncheckedMul(a, b) == Some(NumMul(a, b))

\* num.checked_mul(mul)
SizeMul(a, b) == CheckedMul(a, b)

\* parse_size_bytes after the two early returns: t is the trimmed input and
\* digits_end > 0 the length of its run of digits.
SizeOfDigitsAndUnit(t, digits_end) ==
  Then(ParseU64(SubSeq(t, 1, digits_end)), LAMBDA num :
    With(UnitPower(LowerStr(Trim(SubSeq(t, digits_end + 1, Len(t))))), LAMBDA pow :
      IF ~pow.some THEN Err("unknown size unit")
      ELSE With(SizeMul(num.val, Pow1024(pow.val)), LAMBDA r :
             IF r.some THEN Ok(r.val) ELSE Err("size overflow"))))

parse_size_bytes(str) ==
  With(Trim(str), LAMBDA t :
    IF t = <<>> THEN Err("empty size")
    ELSE With(DigitsEnd(t), LAMBDA digits_end :
           IF digits_end = 0 THEN Err("size must start with digits")
           ELSE SizeOfDigitsAndUnit(t, digits_end)))

(***************************************************************************)
(* regex::Regex, on the subset of the syntax the inputs use: literals,     *)
(* '.', '^', '$', groups, alternation, and '\' followed by a punctuation   *)
(* character (that character, literally), by d, w or s (the Perl classes)  *)
(* or by a, f, t, n, r, v (a control character, which no text of the model *)
(* holds).  Quantifiers, bracketed classes and the other letter escapes    *)
(* are not in the subset and appear in no input.  A pattern is compiled by *)
(* walking it once; matching walks it over the set of text offsets a match *)
(* may have reached.                                                       *)
(***************************************************************************)

RxFail == [ok |-> FALSE, k |-> 0, S |-> {}]
RxOk(k, S) == [ok |-> TRUE, k |-> k, S |-> S]

\* Whether the character y is in the class cls (x: the character of a literal).
RxAccepts(cls, x, y, ci) ==
  IF cls = "lit" THEN (IF ci THEN ToAsciiLowercase(y) = ToAsciiLowercase(x) ELSE y = x)
  ELSE IF cls = "any" THEN TRUE
  ELSE IF cls = "digit" THEN IsAsciiDigit(y)
  ELSE IF cls = "word" THEN IsAlphanumeric(y) \/ y = "_"
  ELSE IF cls = "space" THEN IsWhitespace(y)
  ELSE FALSE

\* The offsets reached from S by one character of the class.
RxStep(t, S, cls, x, ci) ==
  {q + 1 : q \in {z \in S : z < Len(t) /\ RxAccepts(cls, x, t[z + 1], ci)}}

\* The atom at p[k] that is one character or one escape: its class, its
\* character and its length in the pattern, 0 when it is no valid atom.
RxEscape(n) ==
  IF n = "d" THEN [cls |-> "digit", x |-> n, len |-> 2]
  ELSE IF n = "w" THEN [cls |-> "word", x |-> n, len |-> 2]
  ELSE IF n = "s" THEN [cls |-> "space", x |-> n, len |-> 2]
  ELSE IF n \in {"a", "f", "t", "n", "r", "v"} THEN [cls |-> "none", x |-> n, len |-> 2]
  ELSE IF IsAlphanumeric(n) THEN [cls |-> "bad", x |-> n, len |-> 0]
  ELSE [cls |-> "lit", x |-> n, len |-> 2]

RxClass(p, k) ==
  IF p[k] = "\\" THEN
    IF k + 1 > Len(p) THEN [cls |-> "bad", x |-> p[k], len |-> 0]
    ELSE RxEscape(p[k + 1])
  ELSE IF p[k] = "." THEN [cls |-> "any", x |-> p[k], len |-> 1]
  ELSE IF p[k] \in {"*", "+", "?", "[", "]", "{", "}"}
    THEN [cls |-> "bad", x |-> p[k], len |-> 0]
  ELSE [cls |-> "lit", x |-> p[k], len |-> 1]

\* Rx(p, k, t, S, ci, alt): the pattern p walked from p[k] over the offsets S of
\* the text t: an alternation (alt) up to its end or its closing parenthesis,
\* or one sequence of atoms up to '|', ')' or the end.  The result is the
\* index in p after it and the offsets reached.
RECURSIVE Rx(_, _, _, _, _, _)

\* The atom at p[k], which is not '|' or ')'.
RxAtom(p, k, t, S, ci) ==
  IF p[k] = "(" THEN
    Then(Rx(p, k + 1, t, S, ci, TRUE), LAMBDA g :
      IF g.k <= Len(p) /\ p[g.k] = ")" THEN RxOk(g.k + 1, g.S) ELSE RxFail)
  ELSE IF p[k] = "^" THEN RxOk(k + 1, S \cap {0})
  ELSE IF p[k] = "$" THEN RxOk(k + 1, S \cap {Len(t)})
  ELSE With(RxClass(p, k), LAMBDA cl :
         IF cl.len = 0 THEN RxFail
         ELSE RxOk(k + cl.len, RxStep(t, S, cl.cls, cl.x, ci)))

Rx(p, k, t, S, ci, alt) ==
  IF alt THEN
    Then(Rx(p, k, t, S, ci, FALSE), LAMBDA r :
      IF r.k <= Len(p) /\ p[r.k] = "|"
        THEN Then(Rx(p, r.k + 1, t, S, ci, TRUE), LAMBDA r2 : RxOk(r2.k, r.S \cup r2.S))
        ELSE r)
  ELSE IF k > Len(p) \/ p[k] \in {"|", ")"} THEN RxOk(k, S)
  ELSE Then(RxAtom(p, k, t, S, ci), LAMBDA a : Rx(p, a.k, t, a.S, ci, FALSE))

RxAlt(p, k, t, S, ci) == Rx(p, k, t, S, ci, TRUE)

\* Whether the pattern compiles.
RxCompiles(pat) ==
  With(RxAlt(pat, 1, <<>>, {}, FALSE), LAMBDA r : r.ok /\ r.k = Len(pat) + 1)

\* Regex::new(pat) and RegexBuilder::new(pat).case_insensitive(ci).build()
RegexNew(pat, ci) ==
  IF RxCompiles(pat) THEN Ok([pat |-> pat, ci |-> ci]) ELSE Err("regex parse error")

\* Regex::is_match: the pattern matches somewhere in the text.
IsMatch(re, text) == RxAlt(re.pat, 1, text, 0..Len(text), re.ci).S # {}

(***************************************************************************)
(* Expr and Predicate                                                      *)
(***************************************************************************)

\* Path::file_name: the last component when it is a normal one.
FileName(path) ==
  With(Components(path), LAMBDA cs :
    IF cs # <<>> /\ cs[Len(cs)].kind = 4 THEN Some(cs[Len(cs)].name) ELSE None)

\* The offset of the last '.' of name, 0 when it has none.
RECURSIVE LastDot(_, _)
LastDot(name, k) ==
  IF k = 0 THEN 0 ELSE IF name[k] = "." THEN k ELSE LastDot(name, k - 1)

\* An extension that starts after the first '.' of the file name.
RECURSIVE FirstDot(_, _)
FirstDot(name, k) ==
  IF k > Len(name) THEN 0 ELSE IF name[k] = "." THEN k ELSE FirstDot(name, k + 1)

ExtensionOfFirstDot(name) ==
  With(FirstDot(name, 1), LAMBDA d :
    IF d <= 1 THEN None ELSE Some(SubSeq(name, d + 1, Len(name))))

\* Path::extension: the part of the file name after its last '.', when the name
\* has one that is not its first character.
ExtensionOf(name) ==
  With(LastDot(name, Len(name)), LAMBDA d :
    IF d <= 1 THEN None ELSE Some(SubSeq(name, d + 1, Len(name))))

Extension(path) ==
  With(FileName(path), LAMBDA f : IF f.some THEN ExtensionOf(f.val) ELSE None)

\* The SizeCmp arm of Predicate::eval, c being size.cmp(bytes).
CmpHolds(op, c) ==
  IF op = "Lt" THEN c = "Less"
  ELSE IF op = "Lte" THEN c # "Greater"
  ELSE IF op = "Gt" THEN c = "Greater"
  ELSE IF op = "Gte" THEN c # "Less"
  ELSE c = "Equal"

\* Predicate::eval
PredicateEval(p, path, size) ==
  IF p.tag = "PathRegex" THEN IsMatch(p.re, path)
  ELSE IF p.tag = "NameRegex" THEN
    With(FileName(path), LAMBDA f : f.some /\ IsMatch(p.re, f.val))
  ELSE IF p.tag = "ExtEq" THEN
    With(Extension(path), LAMBDA e : e.some /\ EqIgnoreAsciiCase(e.val, p.ext))
  ELSE CmpHolds(p.op, NumCmp(size, p.bytes))

And(a, b) == [tag |-> "And", a |-> a, b |-> b]
Or(a, b) == [tag |-> "Or", a |-> a, b |-> b]
Not(inner) == [tag |-> "Not", inner |-> inner]
Pred(p) == [tag |-> "Pred", p |-> p]

\* Expr::eval
RECURSIVE ExprEval(_, _, _)
ExprEval(e, path, size) ==
  IF e.tag = "And" THEN ExprEval(e.a, path, size) /\ ExprEval(e.b, path, size)
  ELSE IF e.tag = "Or" THEN ExprEval(e.a, path, size) \/ ExprEval(e.b, path, size)
  ELSE IF e.tag = "Not" THEN ~ExprEval(e.inner, path, size)
  ELSE PredicateEval(e.p, path, size)

(***************************************************************************)
(* ParserExpr: the cursor i is a byte offset into s, from 0.  Each parse    *)
(* function returns the cursor it leaves with its value or its error; an    *)
(* error carries its message and, where the message reports one, the byte   *)
(* offset.                                                                  *)
(***************************************************************************)

POk(v, j) == [ok |-> TRUE, val |-> v, i |-> j]
PErr(m, byte, j) == [ok |-> FALSE, msg |-> m, byte |-> byte, i |-> j]

\* ParserExpr::skip_ws: the cursor after it.
RECURSIVE skip_ws(_, _)
skip_ws(str, j) ==
  IF j < Len(str) /\ IsWhitespace(str[j + 1]) THEN skip_ws(str, j + 1) ELSE j

\* ParserExpr::consume_op
consume_op(str, j, op) ==
  IF StartsWith(StrFrom(str, j), op)
    THEN [ok |-> TRUE, i |-> j + Len(op)]
    ELSE [ok |-> FALSE, i |-> j]

\* The longest run of alphanumeric or '_' characters of str from offset j.
RECURSIVE TakeIdent(_, _)
TakeIdent(str, j) ==
  IF j < Len(str) /\ (IsAlphanumeric(str[j + 1]) \/ str[j + 1] = "_")
    THEN <<str[j + 1]>> \o TakeIdent(str, j + 1)
    ELSE <<>>

\* ParserExpr::consume_kw
consume_kw(str, j, kw) ==
  With(skip_ws(str, j), LAMBDA j1 :
    With(TakeIdent(str, j1), LAMBDA taken :
      IF EqIgnoreAsciiCase(taken, kw)
        THEN [ok |-> TRUE, i |-> j1 + Len(taken)]
        ELSE [ok |-> FALSE, i |-> j1]))

\* self.consume_op(op) || self.consume_kw(kw)
ConsumeOpOrKw(str, j, op, kw) ==
  With(consume_op(str, j, op), LAMBDA o : IF o.ok THEN o ELSE consume_kw(str, o.i, kw))

\* ParserExpr::peek_char is Some(c)
PeekIs(str, j, c) == j < Len(str) /\ str[j + 1] = c

\* ParserExpr::expect_char
expect_char(str, j, expected) ==
  With(skip_ws(str, j), LAMBDA j1 :
    IF PeekIs(str, j1, expected)
      THEN POk(expected, j1 + 1)
      ELSE PErr("Expected char at byte", Some(j1), j1))

\* ParserExpr::parse_bare_value
RECURSIVE BareEnd(_, _)
BareEnd(str, j) ==
  IF j < Len(str) /\ ~(IsWhitespace(str[j + 1]) \/ str[j + 1] \in {")", "("})
    THEN BareEnd(str, j + 1)
    ELSE j

parse_bare_value(str, j) ==
  With(skip_ws(str, j), LAMBDA start :
    With(BareEnd(str, start), LAMBDA end :
      POk(SubSeq(str, start + 1, end), end)))

\* The chain of consume_op calls of parse_cmp_op, on the rest r of the input
\* at the cursor j1.
CmpOpAt(r, j1) ==
  IF StartsWith(r, <<">", "=">>) THEN POk("Gte", j1 + 2)
  ELSE IF StartsWith(r, <<"<", "=">>) THEN POk("Lte", j1 + 2)
  ELSE IF StartsWith(r, <<">">>) THEN POk("Gt", j1 + 1)
  ELSE IF StartsWith(r, <<"<">>) THEN POk("Lt", j1 + 1)
  ELSE IF StartsWith(r, <<"=">>) THEN POk("Eq", j1 + 1)
  ELSE PErr("Expected comparison operator after size at byte", Some(j1), j1)

\* ParserExpr::parse_cmp_op
parse_cmp_op(str, j) ==
  With(skip_ws(str, j), LAMBDA j1 : CmpOpAt(StrFrom(str, j1), j1))

\* The closing '/' of a regex literal at offset j: the pattern is compiled.
RegexClose(pat, j) ==
  With(RegexNew(pat, FALSE), LAMBDA re :
    IF re.ok THEN POk(re.val, j + 1) ELSE PErr("Invalid regex", None, j + 1))

\* A scan that drops the backslash of every escape.
RECURSIVE RegexScanStrip(_, _, _)
RegexScanStrip(str, j, pat) ==
  IF j >= Len(str) THEN PErr("Unterminated regex literal", None, j)
  ELSE IF str[j + 1] = "/" THEN RegexClose(pat, j)
  ELSE IF str[j + 1] = "\\" THEN
    IF j + 1 >= Len(str)
      THEN PErr("Unterminated escape in regex literal", None, j + 1)
      ELSE RegexScanStrip(str, j + 2, Append(pat, str[j + 2]))
  ELSE RegexScanStrip(str, j + 1, Append(pat, str[j + 1]))

\* The loop of parse_regex_literal, from the cursor j after the opening '/'
\* with the pattern buffer pat.
RECURSIVE RegexScan(_, _, _)
RegexScan(str, j, pat) ==
  IF j >= Len(str) THEN PErr("Unterminated regex literal", None, j)
  ELSE IF str[j + 1] = "/" THEN RegexClose(pat, j)
  ELSE IF str[j + 1] = "\\" THEN
    IF j + 1 >= Len(str)
      THEN PErr("Unterminated escape in regex literal", None, j + 1)
      ELSE IF str[j + 2] = "/"
        THEN RegexScan(str, j + 2, Append(pat, "/"))
        ELSE RegexScan(str, j + 2, pat \o <<"\\", str[j + 2]>>)
  ELSE RegexScan(str, j + 1, Append(pat, str[j + 1]))

\* ParserExpr::parse_regex_literal
parse_regex_literal(str, j) ==
  With(skip_ws(str, j), LAMBDA j1 :
    IF ~PeekIs(str, j1, "/")
      THEN PErr("Expected regex literal starting with '/' at byte", Some(j1), j1)
      ELSE RegexScan(str, j1 + 1, <<>>))

\* The regex literal of a predicate, made the predicate of the tag.
RegexPredicate(str, j, tag) ==
  Then(parse_regex_literal(str, j), LAMBDA re : POk([tag |-> tag, re |-> re.val], re.i))

\* The ext branch of parse_predicate, after the keyword.
ExtPredicate(str, j) ==
  Then(expect_char(str, j, ":"), LAMBDA e :
    With(parse_bare_value(str, e.i), LAMBDA v :
      IF v.val = <<>>
        THEN PErr("ext: requires a value", None, v.i)
        ELSE POk([tag |-> "ExtEq", ext |-> v.val], v.i)))

\* The size branch of parse_predicate, after the keyword.
SizePredicate(str, j) ==
  Then(parse_cmp_op(str, j), LAMBDA op :
    With(parse_bare_value(str, op.i), LAMBDA v :
      With(parse_size_bytes(v.val), LAMBDA bytes :
        IF ~bytes.ok
          THEN PErr("Invalid size literal", None, v.i)
          ELSE POk([tag |-> "SizeCmp", op |-> op.val, bytes |-> bytes.val], v.i))))

\* The branches of parse_predicate: kw is the keyword the cursor j is after,
\* <<>> when none of the keywords is there.
PredicateOf(str, j, kw) ==
  IF kw \in {<<"n", "a", "m", "e">>, <<"p", "a", "t", "h">>} THEN
    Then(expect_char(str, j, ":"), LAMBDA e :
      RegexPredicate(str, e.i, IF kw = <<"n", "a", "m", "e">> THEN "NameRegex" ELSE "PathRegex"))
  ELSE IF kw = <<"e", "x", "t">> THEN ExtPredicate(str, j)
  ELSE IF kw = <<"s", "i", "z", "e">> THEN SizePredicate(str, j)
  ELSE PErr("Expected predicate at byte", Some(j), j)

\* The chain of consume_kw calls of parse_predicate at the cursor j: the first
\* of the keywords kws that is there, with the cursor after it.
RECURSIVE FirstKw(_, _, _)
FirstKw(str, j, kws) ==
  IF kws = <<>> THEN [kw |-> <<>>, i |-> j]
  ELSE With(consume_kw(str, j, Head(kws)), LAMBDA k :
         IF k.ok THEN [kw |-> Head(kws), i |-> k.i] ELSE FirstKw(str, k.i, Tail(kws)))

\* ParserExpr::parse_predicate
parse_predicate(str, j) ==
  With(skip_ws(str, j), LAMBDA j1 :
    IF PeekIs(str, j1, "/") THEN RegexPredicate(str, j1, "PathRegex")
    ELSE With(FirstKw(str, j1, << <<"n", "a", "m", "e">>, <<"p", "a", "t", "h">>,
                                  <<"e", "x", "t">>, <<"s", "i", "z", "e">> >>),
              LAMBDA k : PredicateOf(str, k.i, k.kw)))

RECURSIVE parse_or(_, _)
RECURSIVE parse_and(_, _)
RECURSIVE parse_unary(_, _)

\* The end of a parenthesised expression, after parse_or returned inner.
CloseParen(str, inner) ==
  With(consume_op(str, skip_ws(str, inner.i), <<")">>), LAMBDA close :
    IF ~close.ok THEN PErr("Expected ')' at byte", Some(close.i), close.i)
    ELSE POk(inner.val, close.i))

\* ParserExpr::parse_primary
parse_primary(str, j) ==
  With(consume_op(str, skip_ws(str, j), <<"(">>), LAMBDA open :
    IF open.ok THEN Then(parse_or(str, open.i), LAMBDA inner : CloseParen(str, inner))
    ELSE Then(parse_predicate(str, open.i), LAMBDA pr : POk(Pred(pr.val), pr.i)))

\* ParserExpr::parse_unary
parse_unary(str, j) ==
  With(ConsumeOpOrKw(str, skip_ws(str, j), <<"!">>, <<"N", "O", "T">>), LAMBDA not :
    IF not.ok
      THEN Then(parse_unary(str, not.i), LAMBDA inner : POk(Not(inner.val), inner.i))
      ELSE parse_primary(str, not.i))

\* A loop of parse_and that parses its right operand with parse_and, grouping
\* a chain of ANDs to the right.
AndLoopRight(str, j, left) ==
  With(ConsumeOpOrKw(str, skip_ws(str, j), <<"&", "&">>, <<"A", "N", "D">>), LAMBDA and :
    IF and.ok
      THEN Then(parse_and(str, and.i), LAMBDA right : POk(And(left, right.val), right.i))
      ELSE POk(left, and.i))

\* The loop of parse_and, with the left operand parsed so far.
RECURSIVE AndLoop(_, _, _)
AndLoop(str, j, left) ==
  With(ConsumeOpOrKw(str, skip_ws(str, j), <<"&", "&">>, <<"A", "N", "D">>), LAMBDA and :
    IF and.ok
      THEN Then(parse_unary(str, and.i),
                LAMBDA right : AndLoop(str, right.i, And(left, right.val)))
      ELSE POk(left, and.i))

\* ParserExpr::parse_and
parse_and(str, j) ==
  Then(parse_unary(str, j), LAMBDA left : AndLoop(str, left.i, left.val))

\* The loop of parse_or, with the left operand parsed so far.
RECURSIVE OrLoop(_, _, _)
OrLoop(str, j, left) ==
  With(ConsumeOpOrKw(str, skip_ws(str, j), <<"|", "|">>, <<"O", "R">>), LAMBDA or :
    IF or.ok
      THEN Then(parse_and(str, or.i),
                LAMBDA right : OrLoop(str, right.i, Or(left, right.val)))
      ELSE POk(left, or.i))

\* ParserExpr::parse_or
parse_or(str, j) ==
  Then(parse_and(str, j), LAMBDA left : OrLoop(str, left.i, left.val))

\* An end of parse that accepts whatever input is left.
ParseEndUnchecked(str, j, expr) == POk(expr, skip_ws(str, j))

\* The end of ParserExpr::parse, after parse_or returned expr with the cursor
\* at j: skip_ws, then the whole input must be consumed.
ParseEnd(str, j, expr) ==
  With(skip_ws(str, j), LAMBDA j1 :
    IF j1 # Len(str)
      THEN PErr("Unexpected trailing input at byte", Some(j1), j1)
      ELSE POk(expr, j1))

\* ParserExpr::new(str).parse()
parse(str) ==
  Then(parse_or(str, 0), LAMBDA e : ParseEnd(str, e.i, e.val))

(***************************************************************************)
(* Matcher                                                                 *)
(***************************************************************************)

\* Result::with_context: an error is wrapped in the message.
WithContext(r, m) == IF r.ok THEN r ELSE Err(m)

\* The loops of Matcher::from_args over args.include and args.exclude: the
\* patterns compiled in order, failing at the first that does not compile.
RECURSIVE CompileAll(_)
CompileAll(pats) ==
  IF pats = <<>> THEN Ok(<<>>)
  ELSE Then(WithContext(RegexNew(Head(pats), TRUE), "Invalid regex"), LAMBDA re :
         Then(CompileAll(Tail(pats)), LAMBDA rest : Ok(<<re.val>> \o rest.val)))

\* parser.parse() on args.query, when there is one.
ParseQuery(query) ==
  IF query.some
    THEN Then(WithContext(parse(query.val), "Invalid --query expression"),
              LAMBDA q : Ok(Some(q.val)))
    ELSE Ok(None)

\* A from_args that drops a query it cannot parse instead of failing.
from_args_lenient(a) ==
  Then(CompileAll(a.include), LAMBDA include :
    Then(CompileAll(a.exclude), LAMBDA exclude :
      With(ParseQuery(a.query), LAMBDA query :
        Ok([query |-> IF query.ok THEN query.val ELSE None,
            include |-> include.val, exclude |-> exclude.val]))))

\* Matcher::from_args
from_args(a) ==
  Then(CompileAll(a.include), LAMBDA include :
    Then(CompileAll(a.exclude), LAMBDA exclude :
      Then(ParseQuery(a.query), LAMBDA query :
        Ok([query |-> query.val, include |-> include.val, exclude |-> exclude.val]))))

\* Whether some regex of the sequence res matches path, tried in order.
RECURSIVE AnyMatch(_, _)
AnyMatch(res, path) ==
  IF res = <<>> THEN FALSE
  ELSE IF IsMatch(Head(res), path) THEN TRUE
  ELSE AnyMatch(Tail(res), path)

\* A matches_path_str whose include filters must all match.
matches_path_str_all(m, path, size) ==
  IF AnyMatch(m.exclude, path) THEN FALSE
  ELSE IF m.include # <<>>
          /\ ~(\A k \in 1..Len(m.include) : IsMatch(m.include[k], path)) THEN FALSE
  ELSE IF m.query.some THEN ExprEval(m.query.val, path, size)
  ELSE TRUE

\* Matcher::matches_path_str
matches_path_str(m, path, size) ==
  IF AnyMatch(m.exclude, path) THEN FALSE
  ELSE IF m.include # <<>> /\ ~AnyMatch(m.include, path) THEN FALSE
  ELSE IF m.query.some THEN ExprEval(m.query.val, path, size)
  ELSE TRUE

(***************************************************************************)
(* main: the Matcher is built, the records of the index (or the entries of *)
(* the walk) are filtered and offered to the selector one by one, and the  *)
(* heap is drained into the sorted results.                                *)
(***************************************************************************)

\* The most records one run reads.
MaxRecords == 3
\* The largest --top.
MaxTop == 2

\* Paths a walk of the root yields, and paths an index may hold (any string).
ScanPaths == {<<"a", "/", "b">>, <<"a", ".", "b">>, <<"b">>}
IndexPaths == ScanPaths \cup {<<"a", "/", "/", "b">>}
Sizes == {<<1>>, <<2>>}

NoFilters(index, min) ==
  [index_read |-> index, min_bytes |-> min, include |-> <<>>, exclude |-> <<>>,
   query |-> None]

\* The command lines of the runs: without filters, with an exclude filter and
\* --min-bytes, with a query, and with an include pattern, a query, an exclude
\* pattern and a regex literal of the query that are rejected.
ArgConfigs ==
  { NoFilters(TRUE, <<0>>),
    NoFilters(FALSE, <<0>>),
    [NoFilters(TRUE, <<2>>) EXCEPT !.exclude = <<<<"^", "b">>>>],
    [NoFilters(FALSE, <<0>>) EXCEPT !.query = Some(<<"s", "i", "z", "e", ">", "1", " ", "O", "R", " ", "e", "x", "t", ":", "b">>)],
    [NoFilters(TRUE, <<0>>) EXCEPT !.include = <<<<"(">>>>],
    [NoFilters(FALSE, <<0>>) EXCEPT !.query = Some(<<"s", "i", "z", "e", ">">>)],
    [NoFilters(TRUE, <<0>>) EXCEPT !.exclude = <<<<"^", "b">>, <<"(">>>>],
    [NoFilters(FALSE, <<0>>) EXCEPT !.query = Some(<<"e", "x", "t", ":", "b", " ", "O", "R", " ", "/", "(", "/">>)] }

\* let top_n = args.top.max(1);
top_n == IF args.top >= 1 THEN args.top ELSE 1

\* The order of two candidates by size, then by the bytes of the path.
CanonLe(a, b) ==
  LET c == NumCmp(a.size, b.size)
  IN  IF c # "Equal" THEN c = "Less" ELSE ByteCmp(a.path, b.path) # "Greater"

\* The multiset q, a sequence in CanonLe order, with x added.
RECURSIVE CanonInsert(_, _)
CanonInsert(q, x) ==
  IF q = <<>> THEN <<x>>
  ELSE IF CanonLe(x, Head(q)) THEN <<x>> \o q
  ELSE <<Head(q)>> \o CanonInsert(Tail(q), x)

Idle ==
  /\ s = <<>> /\ i = 0 /\ parsed = None /\ tmpl = None /\ rec = None
  /\ verdict = None
  /\ evaluated = <<>>

Init ==
  /\ pc = "start"
  /\ \E a \in ArgConfigs, top \in 0..MaxTop :
       args = [top |-> top, index_read |-> a.index_read, min_bytes |-> a.min_bytes,
               include |-> a.include, exclude |-> a.exclude, query |-> a.query]
  /\ matcher = None
  /\ top_files = <<>>
  /\ results = <<>>
  /\ offered = <<>>
  /\ nrecords = 0
  /\ Idle

\* main, line 162: let matcher = Matcher::from_args(&args)?;
FromArgs ==
  /\ pc = "start"
  /\ \E m \in {from_args(args)} :
       IF m.ok THEN matcher' = Some(m.val) /\ pc' = "loop"
       ELSE matcher' = matcher /\ pc' = "aborted"
  /\ UNCHANGED <<args, top_files, results, offered, nrecords,
                 s, i, parsed, tmpl, rec, verdict, evaluated>>

\* One record of read_index_and_collect (lines 384-405) or one regular file of
\* scan_filesystem_and_collect (lines 308-336): the --min-bytes test, the
\* matcher, then consider_candidate.
ReadRecord(path, size) ==
  /\ pc = "loop"
  /\ nrecords < MaxRecords
  /\ path \in (IF args.index_read THEN IndexPaths ELSE ScanPaths)
  /\ nrecords' = nrecords + 1
  /\ IF NumCmp(size, args.min_bytes) = "Less"
          \/ ~matches_path_str(matcher.val, path, size)
       THEN UNCHANGED <<top_files, offered>>
       ELSE /\ top_files' = consider_candidate(top_files, top_n, [size |-> size, path |-> path])
            /\ offered' = CanonInsert(offered, [size |-> size, path |-> path])
  /\ UNCHANGED <<pc, args, matcher, results, s, i, parsed, tmpl, rec, verdict, evaluated>>

\* A line of the index that cannot be read or parsed, or an entry of the walk
\* that is in error or no regular file: skipped.
SkipRecord ==
  /\ pc = "loop"
  /\ nrecords < MaxRecords
  /\ nrecords' = nrecords + 1
  /\ UNCHANGED <<pc, args, matcher, top_files, results, offered,
                 s, i, parsed, tmpl, rec, verdict, evaluated>>

\* main, lines 226-231, at the end of the stream.
Drain ==
  /\ pc = "loop"
  /\ results' = DrainSorted(top_files)
  /\ pc' = "done"
  /\ UNCHANGED <<args, matcher, top_files, offered, nrecords,
                 s, i, parsed, tmpl, rec, verdict, evaluated>>

Next ==
  \/ FromArgs
  \/ \E path \in IndexPaths, size \in Sizes : ReadRecord(path, size)
  \/ SkipRecord
  \/ Drain

Spec == Init /\ [][Next]_vars

(***************************************************************************)
(* The selector's claims, under Spec                                       *)
(***************************************************************************)

\* The heap after the candidates of the sequence q were offered in order to an
\* empty selector of capacity n.
RECURSIVE RunAll(_, _)
RunAll(q, n) ==
  IF q = <<>> THEN <<>>
  ELSE consider_candidate(RunAll(SubSeq(q, 1, Len(q) - 1), n), n, q[Len(q)])

\* The candidates of the sequence q as a multiset (a sequence in CanonLe order).
RECURSIVE CanonSeq(_)
CanonSeq(q) == IF q = <<>> THEN <<>> ELSE CanonInsert(CanonSeq(Tail(q)), Head(q))

\* a ranks strictly higher than b: a larger size, or the same size and the
\* lexicographically smaller path string.
Outranks(a, b) ==
  LET c == NumCmp(a.size, b.size)
  IN  IF c # "Equal" THEN c = "Greater" ELSE ByteCmp(a.path, b.path) = "Less"

RECURSIVE RankInsert(_, _)
RankInsert(q, x) ==
  IF q = <<>> THEN <<x>>
  ELSE IF Outranks(x, Head(q)) THEN <<x>> \o q
  ELSE <<Head(q)>> \o RankInsert(Tail(q), x)

RECURSIVE RankSort(_)
RankSort(q) == IF q = <<>> THEN <<>> ELSE RankInsert(RankSort(Tail(q)), Head(q))

\* The n highest-ranked candidates of q (all of them when q has fewer).
TopRanked(q, n) ==
  SubSeq(RankSort(q), 1, IF Len(q) < n THEN Len(q) ELSE n)

\* C1: the final sorted result is the same for every arrival order of the
\* accepted records: the result of the run, whose records arrived in any order,
\* is the result of offering the same records in one fixed order (by size, then
\* by the bytes of the path).
C1_SameResultForEveryOrder ==
  pc = "done" => results = DrainSorted(RunAll(offered, top_n))

\* C2: the selector never holds more than top_n candidates, in every state of
\* the run.
C2_AtMostTopN == Len(top_files) <= top_n

\* C2's case: more candidates were offered than the selector may hold, and it
\* is full.
C2_Witness ==
  pc = "loop" /\ Len(offered) > top_n /\ Len(top_files) = top_n

\* C3: after any sequence of consider_candidate calls the held candidates are
\* exactly the top_n highest-ranked of the candidates offered so far, a larger
\* size ranking higher and, for equal sizes, the lexicographically smaller path.
C3_HoldsTopRanked ==
  pc \in {"loop", "done"} => CanonSeq(top_files) = CanonSeq(TopRanked(offered, top_n))

\* C4: the drained result holds exactly the candidates held at stream end and is
\* ordered non-increasing by size and, among equal sizes, non-decreasing by path
\* string.
C4_DrainedInOrder ==
  pc = "done" =>
    /\ CanonSeq(results) = CanonSeq(top_files)
    /\ \A k \in 1..(Len(results) - 1) :
         LET c == NumCmp(results[k].size, results[k + 1].size)
         IN  /\ c # "Less"
             /\ c = "Equal" => ByteCmp(results[k].path, results[k + 1].path) # "Greater"

\* Patterns the regex compiler rejects and queries the parser rejects (the
\* second for the regex literal in it).
BadPatterns == {<<"(">>}
BadQueries == {<<"s", "i", "z", "e", ">">>, <<"e", "x", "t", ":", "b", " ", "O", "R", " ", "/", "(", "/">>}

\* Some include pattern, exclude pattern or the query of the command line a is
\* rejected.
Rejected(a) ==
  \/ \E k \in 1..Len(a.include) : a.include[k] \in BadPatterns
  \/ \E k \in 1..Len(a.exclude) : a.exclude[k] \in BadPatterns
  \/ a.query.some /\ a.query.val \in BadQueries

\* C11: if an include pattern, an exclude pattern or a regex of the query does
\* not compile, or the query does not parse, the construction of the Matcher
\* fails and the run aborts before any record is read, matched or offered to
\* the selector; on every run the Matcher is compiled before the first record
\* and is never compiled or changed afterwards.
C11_CompiledOnceBeforeRecords ==
  [][ /\ pc = "start" =>
           (nrecords = 0 /\ offered = <<>> /\ top_files = <<>> /\ ~matcher.some)
      /\ (pc = "start" /\ Rejected(args)) => pc' = "aborted"
      /\ pc' = "aborted" =>
           /\ pc = "start"
           /\ nrecords' = 0 /\ offered' = <<>> /\ top_files' = <<>> /\ results' = <<>>
           /\ ~matcher'.some
      /\ pc # "aborted"
      /\ matcher' # matcher => pc = "start"
      /\ (nrecords' # nrecords \/ offered' # offered \/ top_files' # top_files) =>
           (pc = "loop" /\ matcher.some /\ matcher' = matcher)
    ]_vars

\* C11's case: the run was aborted for a regex literal of the query that does
\* not compile, with no record read.
C11_Witness ==
  /\ pc = "aborted"
  /\ args.query = Some(<<"e", "x", "t", ":", "b", " ", "O", "R", " ", "/", "(", "/">>)
  /\ nrecords = 0

(***************************************************************************)
(* Matcher::matches_path_str on its own: a Matcher is built from the       *)
(* filters of the command line and applied to one record.                  *)
(***************************************************************************)

MatchIncludes == {<<>>, <<<<"f", "o", "o">>>>, <<<<"f", "o", "o">>, <<"b", "a", "r">>>>, <<<<"b", "a", "z">>, <<"f", "o", "o">>>>}
MatchExcludes == {<<>>, <<<<"^", "/", "h", "o", "m", "e">>>>, <<<<"b", "a", "r">>>>, <<<<"x">>, <<"a", ".", "\\", ".", "t", "x", "t", "$">>>>}
MatchQueries == {None, Some(<<"s", "i", "z", "e", ">", "1">>), Some(<<"n", "a", "m", "e", ":", "/", "^", "b", "a", "/", " ", "O", "R", " ", "s", "i", "z", "e", "=", "1">>), Some(<<"N", "O", "T", " ", "e", "x", "t", ":", "t", "x", "t">>)}
MatchPaths == {<<"/", "t", "m", "p", "/", "f", "o", "o", ".", "t", "x", "t">>, <<"/", "t", "m", "p", "/", "b", "a", "r", ".", "t", "x", "t">>, <<"/", "t", "m", "p", "/", "b", "a", "z", ".", "t", "x", "t">>, <<"/", "h", "o", "m", "e", "/", "F", "o", "o", ".", "T", "X", "T">>}

InitMatch ==
  /\ pc = "start"
  /\ \E inc \in MatchIncludes, exc \in MatchExcludes, q \in MatchQueries :
       args = [top |-> 1, index_read |-> TRUE, min_bytes |-> <<0>>,
               include |-> inc, exclude |-> exc, query |-> q]
  /\ \E path \in MatchPaths, size \in Sizes : rec = [path |-> path, size |-> size]
  /\ matcher = None
  /\ verdict = None
  /\ evaluated = <<>>
  /\ top_files = <<>> /\ results = <<>> /\ offered = <<>> /\ nrecords = 0
  /\ s = <<>> /\ i = 0 /\ parsed = None /\ tmpl = None

\* matcher.matches_path_str(&rec.path, rec.size)
MatchRecord ==
  /\ pc = "loop"
  /\ verdict' = Some(matches_path_str(matcher.val, rec.path, rec.size))
  /\ pc' = "matched"
  /\ UNCHANGED <<args, matcher, top_files, results, offered, nrecords,
                 s, i, parsed, tmpl, rec, evaluated>>

NextMatch == FromArgs \/ MatchRecord

SpecMatch == InitMatch /\ [][NextMatch]_vars

\* C5: matches_path_str is true exactly when no exclude regex matches the path,
\* and no include regex is configured or at least one matches it, and no query
\* is configured or the query evaluates to true; with the includes foo and bar
\* alone, /tmp/foo.txt and /tmp/bar.txt pass and /tmp/baz.txt does not.
C5_MatchesExactlyWhen ==
  pc = "matched" =>
    LET m == matcher.val
        expected ==
          /\ \A k \in 1..Len(m.exclude) : ~IsMatch(m.exclude[k], rec.path)
          /\ \/ Len(m.include) = 0
             \/ \E k \in 1..Len(m.include) : IsMatch(m.include[k], rec.path)
          /\ \/ ~m.query.some
             \/ ExprEval(m.query.val, rec.path, rec.size)
    IN  /\ verdict.val = expected
        /\ (args.include = <<<<"f", "o", "o">>, <<"b", "a", "r">>>> /\ args.exclude = <<>> /\ ~args.query.some)
             => (verdict.val = (rec.path # <<"/", "t", "m", "p", "/", "b", "a", "z", ".", "t", "x", "t">>))

\* C5's case: of several include regexes one matches the path and another does
\* not, nothing else rejects the record, and it is accepted.
C5_Witness ==
  /\ pc = "matched"
  /\ Len(matcher.val.include) >= 2
  /\ \E k \in 1..Len(matcher.val.include) : ~IsMatch(matcher.val.include[k], rec.path)
  /\ verdict.val = TRUE

(***************************************************************************)
(* Matcher::matches_path_str step by step: each is_match of an exclude or  *)
(* include regex and the eval of the query is one step, and evaluated is   *)
(* the sequence of the evaluations made so far in the call.                *)
(***************************************************************************)

\* The call matcher.matches_path_str(&rec.path, rec.size) is entered.
BeginMatch ==
  /\ pc = "loop"
  /\ pc' = "m_exclude"
  /\ UNCHANGED <<args, matcher, top_files, results, offered, nrecords,
                 s, i, parsed, tmpl, rec, verdict, evaluated>>

\* An iteration of the exclude loop that goes on to the include test after a
\* match instead of returning false.
ExcludeStepNoReturn ==
  /\ pc = "m_exclude"
  /\ Len(evaluated) < Len(matcher.val.exclude)
  /\ evaluated' = Append(evaluated, [step |-> "exclude", k |-> Len(evaluated) + 1])
  /\ IF IsMatch(matcher.val.exclude[Len(evaluated) + 1], rec.path)
       THEN verdict' = Some(FALSE) /\ pc' = "m_include"
       ELSE verdict' = verdict /\ pc' = pc
  /\ UNCHANGED <<args, matcher, top_files, results, offered, nrecords,
                 s, i, parsed, tmpl, rec>>

\* Lines 122-126, one iteration of the loop over self.exclude: the regex is
\* matched against the path, and a match returns false.
ExcludeStep ==
  /\ pc = "m_exclude"
  /\ Len(evaluated) < Len(matcher.val.exclude)
  /\ evaluated' = Append(evaluated, [step |-> "exclude", k |-> Len(evaluated) + 1])
  /\ IF IsMatch(matcher.val.exclude[Len(evaluated) + 1], rec.path)
       THEN verdict' = Some(FALSE) /\ pc' = "m_done"
       ELSE verdict' = verdict /\ pc' = pc
  /\ UNCHANGED <<args, matcher, top_files, results, offered, nrecords,
                 s, i, parsed, tmpl, rec>>

\* The loop over self.exclude ends without a match.
ExcludeDone ==
  /\ pc = "m_exclude"
  /\ Len(evaluated) = Len(matcher.val.exclude)
  /\ pc' = "m_include"
  /\ UNCHANGED <<args, matcher, top_files, results, offered, nrecords,
                 s, i, parsed, tmpl, rec, verdict, evaluated>>

\* The number of include regexes matched so far in the call.
IncludesTried == Len(evaluated) - Len(matcher.val.exclude)

\* Line 129, one step of self.include.iter().any(..) on a non-empty list: a
\* match ends the test, and the last regex failing to match returns false.
IncludeStep ==
  /\ pc = "m_include"
  /\ IncludesTried < Len(matcher.val.include)
  /\ evaluated' = Append(evaluated, [step |-> "include", k |-> IncludesTried + 1])
  /\ IF IsMatch(matcher.val.include[IncludesTried + 1], rec.path)
       THEN verdict' = verdict /\ pc' = "m_query"
       ELSE IF IncludesTried + 1 = Len(matcher.val.include)
         THEN verdict' = Some(FALSE) /\ pc' = "m_done"
         ELSE verdict' = verdict /\ pc' = pc
  /\ UNCHANGED <<args, matcher, top_files, results, offered, nrecords,
                 s, i, parsed, tmpl, rec>>

\* Line 129 with no include filter: self.include.is_empty().
IncludeEmpty ==
  /\ pc = "m_include"
  /\ matcher.val.include = <<>>
  /\ pc' = "m_query"
  /\ UNCHANGED <<args, matcher, top_files, results, offered, nrecords,
                 s, i, parsed, tmpl, rec, verdict, evaluated>>

\* Lines 133-137: the query, when there is one, decides; true otherwise.
QueryStep ==
  /\ pc = "m_query"
  /\ IF matcher.val.query.some
       THEN /\ evaluated' = Append(evaluated, [step |-> "query", k |-> 1])
            /\ verdict' = Some(ExprEval(matcher.val.query.val, rec.path, rec.size))
       ELSE /\ evaluated' = evaluated
            /\ verdict' = Some(TRUE)
  /\ pc' = "m_done"
  /\ UNCHANGED <<args, matcher, top_files, results, offered, nrecords,
                 s, i, parsed, tmpl, rec>>

NextOrder ==
  \/ FromArgs
  \/ BeginMatch
  \/ ExcludeStep
  \/ ExcludeDone
  \/ IncludeStep
  \/ IncludeEmpty
  \/ QueryStep

SpecOrder == InitMatch /\ [][NextOrder]_vars

\* The place of a step in the order exclude, include, query.
StepRank(step) == IF step = "exclude" THEN 1 ELSE IF step = "include" THEN 2 ELSE 3

\* Some regex of the sequence res matches the path.
SomeMatches(res, path) == \E k \in 1..Len(res) : IsMatch(res[k], path)

\* C12: matches_path_str makes its checks in the order exclude, include,
\* query: for a record whose path matches an exclude regex no include regex and
\* no query is evaluated, and for a record the include step rejects the query
\* is not evaluated.
C12_ExcludeIncludeQueryOrder ==
  /\ \A a, b \in 1..Len(evaluated) :
       a < b => StepRank(evaluated[a].step) <= StepRank(evaluated[b].step)
  /\ (pc \in {"m_exclude", "m_include", "m_query", "m_done"}
        /\ SomeMatches(matcher.val.exclude, rec.path)) =>
       /\ \A a \in 1..Len(evaluated) : evaluated[a].step = "exclude"
       /\ pc \in {"m_exclude", "m_done"}
       /\ pc = "m_done" => verdict = Some(FALSE)
  /\ (pc \in {"m_include", "m_query", "m_done"}
        /\ matcher.val.include # <<>>
        /\ ~SomeMatches(matcher.val.include, rec.path)) =>
       /\ \A a \in 1..Len(evaluated) : evaluated[a].step # "query"
       /\ pc \in {"m_include", "m_done"}
       /\ pc = "m_done" => verdict = Some(FALSE)

\* C12's case: a record whose path an exclude regex matches was rejected by a
\* Matcher that also has include filters and a query, with only exclude
\* regexes evaluated.
C12_Witness ==
  /\ pc = "m_done"
  /\ SomeMatches(matcher.val.exclude, rec.path)
  /\ matcher.val.include # <<>>
  /\ matcher.val.query.some
  /\ evaluated # <<>>
  /\ \A a \in 1..Len(evaluated) : evaluated[a].step = "exclude"

(***************************************************************************)
(* ParserExpr::parse on its own: a query string is parsed, parse_or first  *)
(* and the end-of-input test after it, and the expression is evaluated on  *)
(* a record.  tmpl records how the query string was written.               *)
(***************************************************************************)

\* The most fragments a query string is assembled from.
MaxFrags == 2
\* The most characters or escapes between the slashes of a regex literal.
MaxBody == 3

\* The strings of the sequence q, concatenated.
RECURSIVE Concat(_)
Concat(q) == IF q = <<>> THEN <<>> ELSE Head(q) \o Concat(Tail(q))

\* The sequences of at most n elements of the set S.
SeqsUpTo(S, n) == UNION {[1..k -> S] : k \in 0..n}

\* Predicates as they are written in a query.
PredTexts == <<<<"s", "i", "z", "e", ">", "1">>, <<"e", "x", "t", ":", "b">>, <<"/", "a", "/">>, <<"n", "a", "m", "e", ":", "/", "^", "b", "/">>>>

\* The spellings of the operators: keywords, keywords in lower case, symbols.
Spellings ==
  << [or |-> <<" ", "O", "R", " ">>, and |-> <<" ", "A", "N", "D", " ">>, not |-> <<"N", "O", "T", " ">>],
     [or |-> <<" ", "o", "r", " ">>, and |-> <<" ", "a", "n", "d", " ">>, not |-> <<"n", "o", "t", " ">>],
     [or |-> <<" ", "|", "|", " ">>, and |-> <<" ", "&", "&", " ">>, not |-> <<"!">>] >>

TemplateKinds == {"or_and_not", "and_and", "paren", "or_or", "and_or", "not_not"}

\* The query of the template kind with the predicates a, b, c and the
\* operators as w spells them.
TemplateText(kind, a, b, c, w) ==
  IF kind = "or_and_not" THEN a \o w.or \o b \o w.and \o w.not \o c
  ELSE IF kind = "and_and" THEN a \o w.and \o b \o w.and \o c
  ELSE IF kind = "paren" THEN <<"(">> \o a \o w.or \o b \o <<")">> \o w.and \o c
  ELSE IF kind = "or_or" THEN a \o w.or \o b \o w.or \o c
  ELSE IF kind = "and_or" THEN a \o w.and \o b \o w.or \o c
  ELSE w.not \o w.not \o a

\* What is written between the slashes of a regex literal: the escaped
\* delimiter, escapes of other characters, and a plain character.
BodyTokens == {<<"\\", "/">>, <<"\\", ".">>, <<"\\", "\\">>, <<"\\", "d">>, <<"a">>}
KeyTexts == <<<<>>, <<"n", "a", "m", "e", ":">>, <<"p", "a", "t", "h", ":", " ">>>>
RestTexts == <<<<>>, <<" ", "O", "R", " ", "/", "a", "/">>>>

\* Complete expressions, and input that is not part of them.
TrailExprs == {<<"s", "i", "z", "e", ">", "1", "G", "B">>, <<"e", "x", "t", ":", "b">>, <<"/", "a", "/">>, <<"(", "e", "x", "t", ":", "b", ")">>, <<"s", "i", "z", "e", ">", "1", " ", "O", "R", " ", "e", "x", "t", ":", "b">>, <<"N", "O", "T", " ", "/", "a", "/">>}
TrailTexts == {<<")">>, <<" ", ")">>, <<" ", "x">>, <<" ", " ", "e", "x", "t", ":", "b">>, <<" ", "/", "a", "/">>, <<")", " ", "O", "R", " ", "e", "x", "t", ":", "b">>, <<" ", "N", "O", "T", " ", "e", "x", "t", ":", "b">>, <<"(">>, <<" ", " ", "(">>}

\* Pieces of queries, complete and not.
Fragments ==
  {<<"s", "i", "z", "e", ">", "1">>, <<"s", "i", "z", "e">>, <<"s", "i", "z", "e", ">">>, <<"e", "x", "t", ":">>, <<"e", "x", "t", ":", "b">>, <<"n", "a", "m", "e", ":">>, <<"n", "a", "m", "e">>,
   <<"/", "a", "/">>, <<"/", "a">>, <<"/", "a", "\\">>, <<"/", "(", "/">>, <<"(">>, <<")">>, <<" ">>, <<" ", "O", "R", " ">>, <<" ", "A", "N", "D", " ">>,
   <<"N", "O", "T", " ">>, <<"x">>}

\* The queries of the documentation and of the tests.
Examples ==
  {<<"s", "i", "z", "e", ">", "1", "0", "7", "3", "7", "4", "1", "8", "2", "4", " ", "A", "N", "D", " ", "N", "O", "T", " ", "n", "a", "m", "e", ":", "/", "\\", ".", "p", "a", "r", "t", "$", "/">>,
   <<"n", "a", "m", "e", ":", "/", "\\", ".", "(", "m", "p", "4", "|", "m", "k", "v", ")", "$", "/">>,
   <<"p", "a", "t", "h", ":", "/", "f", "o", "o", "\\", "/", "b", "a", "r", "/">>,
   <<"s", "i", "z", "e", ">", "1", "G", "B", ")">>}

TwoGiB == <<2, 1, 4, 7, 4, 8, 3, 6, 4, 8>>

\* The records an expression is evaluated on.
ParseRecords ==
  { [path |-> <<"a", "r", "c", "h", "i", "v", "e", ".", "p", "a", "r", "t">>, size |-> TwoGiB],
    [path |-> <<"a", "r", "c", "h", "i", "v", "e", ".", "i", "s", "o">>, size |-> TwoGiB],
    [path |-> <<"a", "r", "c", "h", "i", "v", "e", ".", "p", "a", "r", "t">>, size |-> <<1>>],
    [path |-> <<"/", "t", "m", "p", "/", "m", "o", "v", "i", "e", ".", "m", "p", "4">>, size |-> <<1>>],
    [path |-> <<"/", "t", "m", "p", "/", "m", "o", "v", "i", "e", "X", "m", "p", "4">>, size |-> <<1>>],
    [path |-> <<"/", "t", "m", "p", "/", "f", "o", "o", "/", "b", "a", "r", "/", "b", "a", "z">>, size |-> <<2>>],
    [path |-> <<"/", "t", "m", "p", "/", "f", "o", "o", "X", "b", "a", "r", "/", "b", "a", "z">>, size |-> <<2>>] }

InitParse ==
  /\ pc = "p_new"
  /\ \/ \E kind \in TemplateKinds, a, b, c \in 1..Len(PredTexts), w \in 1..Len(Spellings) :
          /\ tmpl = [kind |-> kind, a |-> a, b |-> b, c |-> c]
          /\ s = TemplateText(kind, PredTexts[a], PredTexts[b], PredTexts[c], Spellings[w])
     \/ \E toks \in SeqsUpTo(BodyTokens, MaxBody), key \in 1..Len(KeyTexts),
           rest \in 1..Len(RestTexts) :
          /\ tmpl = [kind |-> "regex", toks |-> toks, key |-> key, rest |-> rest]
          /\ s = KeyTexts[key] \o <<"/">> \o Concat(toks) \o <<"/">> \o RestTexts[rest]
     \/ \E e \in TrailExprs, t \in TrailTexts :
          /\ tmpl = [kind |-> "trail", e |-> e, t |-> t]
          /\ s = e \o t
     \/ \E frags \in SeqsUpTo(Fragments, MaxFrags) :
          /\ tmpl = [kind |-> "frags"]
          /\ s = Concat(frags)
     \/ \E e \in Examples :
          /\ tmpl = [kind |-> "example"]
          /\ s = e
  /\ i = 0
  /\ parsed = None
  /\ rec = None
  /\ verdict = None
  /\ evaluated = <<>>
  /\ args = [top |-> 1, index_read |-> TRUE, min_bytes |-> <<0>>,
             include |-> <<>>, exclude |-> <<>>, query |-> None]
  /\ matcher = None
  /\ top_files = <<>> /\ results = <<>> /\ offered = <<>> /\ nrecords = 0

\* ParserExpr::parse, line 508: let expr = self.parse_or()?;
ParseOr ==
  /\ pc = "p_new"
  /\ \E r \in {parse_or(s, i)} :
       /\ parsed' = r
       /\ i' = r.i
       /\ pc' = IF r.ok THEN "p_or" ELSE "p_failed"
  /\ UNCHANGED <<args, matcher, top_files, results, offered, nrecords,
                 s, tmpl, rec, verdict, evaluated>>

\* ParserExpr::parse, lines 509-513: skip_ws, the test of the cursor, Ok(expr).
ParseFinish ==
  /\ pc = "p_or"
  /\ \E r \in {ParseEnd(s, i, parsed.val)} :
       /\ parsed' = r
       /\ i' = r.i
       /\ pc' = IF r.ok THEN "p_ok" ELSE "p_failed"
  /\ UNCHANGED <<args, matcher, top_files, results, offered, nrecords,
                 s, tmpl, rec, verdict, evaluated>>

\* expr.eval(&ctx) on the parsed expression.
EvalRecord(r) ==
  /\ pc = "p_ok"
  /\ rec' = r
  /\ verdict' = Some(ExprEval(parsed.val, r.path, r.size))
  /\ pc' = "p_eval"
  /\ UNCHANGED <<args, matcher, top_files, results, offered, nrecords,
                 s, i, parsed, tmpl, evaluated>>

NextParse ==
  \/ ParseOr
  \/ ParseFinish
  \/ \E r \in ParseRecords : EvalRecord(r)

SpecParse == InitParse /\ [][NextParse]_vars

(***************************************************************************)
(* The parser's claims, under SpecParse                                    *)
(***************************************************************************)

PathRe(pat) == Pred([tag |-> "PathRegex", re |-> [pat |-> pat, ci |-> FALSE]])
NameRe(pat) == Pred([tag |-> "NameRegex", re |-> [pat |-> pat, ci |-> FALSE]])

\* The expressions of the predicates of PredTexts.
PredExprs ==
  << Pred([tag |-> "SizeCmp", op |-> "Gt", bytes |-> <<1>>]),
     Pred([tag |-> "ExtEq", ext |-> <<"b">>]),
     PathRe(<<"a">>),
     NameRe(<<"^", "b">>) >>

\* The expression a template is to parse to.
TemplateExpr(kind, a, b, c) ==
  IF kind = "or_and_not" THEN Or(a, And(b, Not(c)))
  ELSE IF kind = "and_and" THEN And(And(a, b), c)
  ELSE IF kind = "paren" THEN And(Or(a, b), c)
  ELSE IF kind = "or_or" THEN Or(Or(a, b), c)
  ELSE IF kind = "and_or" THEN Or(And(a, b), c)
  ELSE Not(Not(a))

\* C6: NOT/! binds tighter than AND/&&, and AND/&& tighter than OR/||, AND and
\* OR group to the left, NOT to the right, and parentheses override: for all
\* predicates a, b, c, `a OR b AND NOT c` parses to Or(a, And(b, Not(c))),
\* `a AND b AND c` to And(And(a, b), c), `(a OR b) AND c` to And(Or(a, b), c);
\* and `size>1073741824 AND NOT name:/\.part$/` rejects a 2 GiB archive.part
\* and accepts a 2 GiB archive.iso.
C6_PrecedenceAndAssociativity ==
  /\ (tmpl.kind \in TemplateKinds /\ pc # "p_new") =>
       /\ pc # "p_failed"
       /\ parsed.val = TemplateExpr(tmpl.kind, PredExprs[tmpl.a], PredExprs[tmpl.b],
                                    PredExprs[tmpl.c])
  /\ (pc = "p_eval" /\ s = <<"s", "i", "z", "e", ">", "1", "0", "7", "3", "7", "4", "1", "8", "2", "4", " ", "A", "N", "D", " ", "N", "O", "T", " ", "n", "a", "m", "e", ":", "/", "\\", ".", "p", "a", "r", "t", "$", "/">>
        /\ rec.size = TwoGiB /\ rec.path \in {<<"a", "r", "c", "h", "i", "v", "e", ".", "p", "a", "r", "t">>, <<"a", "r", "c", "h", "i", "v", "e", ".", "i", "s", "o">>}) =>
       verdict.val = (rec.path = <<"a", "r", "c", "h", "i", "v", "e", ".", "i", "s", "o">>)

\* C6's case: a chain of two ANDs was parsed.
C6_Witness ==
  /\ pc = "p_ok"
  /\ tmpl.kind = "and_and"
  /\ parsed.val.tag = "And"
  /\ parsed.val.a.tag = "And"

\* What a token between the slashes adds to the pattern.
TokenPattern(tok) == IF tok = <<"\\", "/">> THEN <<"/">> ELSE tok

RECURSIVE BodyPattern(_)
BodyPattern(toks) ==
  IF toks = <<>> THEN <<>> ELSE TokenPattern(Head(toks)) \o BodyPattern(Tail(toks))

\* The predicate of a regex literal with the pattern pat after the key.
KeyExpr(key, pat) == IF key = 2 THEN NameRe(pat) ELSE PathRe(pat)

\* C7: in a regex literal, after the opening '/', a backslash followed by '/'
\* adds one '/' to the pattern and does not close the literal, a backslash
\* followed by another character adds both unchanged, any other character is
\* added as is, and the first unescaped '/' closes the literal; so
\* `name:/\.(mp4|mkv)$/` matches /tmp/movie.mp4 and not /tmp/movieXmp4, and
\* `path:/foo\/bar/` matches /tmp/foo/bar/baz and not /tmp/fooXbar/baz.
C7_RegexLiteralEscapes ==
  /\ (tmpl.kind = "regex" /\ pc # "p_new") =>
       /\ pc # "p_failed"
       /\ parsed.val = IF tmpl.rest = 1
                         THEN KeyExpr(tmpl.key, BodyPattern(tmpl.toks))
                         ELSE Or(KeyExpr(tmpl.key, BodyPattern(tmpl.toks)), PathRe(<<"a">>))
  /\ (pc = "p_eval" /\ s = <<"n", "a", "m", "e", ":", "/", "\\", ".", "(", "m", "p", "4", "|", "m", "k", "v", ")", "$", "/">>
        /\ rec.path \in {<<"/", "t", "m", "p", "/", "m", "o", "v", "i", "e", ".", "m", "p", "4">>, <<"/", "t", "m", "p", "/", "m", "o", "v", "i", "e", "X", "m", "p", "4">>}) =>
       /\ parsed.val = NameRe(<<"\\", ".", "(", "m", "p", "4", "|", "m", "k", "v", ")", "$">>)
       /\ verdict.val = (rec.path = <<"/", "t", "m", "p", "/", "m", "o", "v", "i", "e", ".", "m", "p", "4">>)
  /\ (pc = "p_eval" /\ s = <<"p", "a", "t", "h", ":", "/", "f", "o", "o", "\\", "/", "b", "a", "r", "/">>
        /\ rec.path \in {<<"/", "t", "m", "p", "/", "f", "o", "o", "/", "b", "a", "r", "/", "b", "a", "z">>, <<"/", "t", "m", "p", "/", "f", "o", "o", "X", "b", "a", "r", "/", "b", "a", "z">>}) =>
       /\ parsed.val = PathRe(<<"f", "o", "o", "/", "b", "a", "r">>)
       /\ verdict.val = (rec.path = <<"/", "t", "m", "p", "/", "f", "o", "o", "/", "b", "a", "r", "/", "b", "a", "z">>)

\* C7's case: a literal with an escaped delimiter and another escape was
\* scanned to its closing '/'.
C7_Witness ==
  /\ pc = "p_ok"
  /\ tmpl.kind = "regex"
  /\ \E k \in 1..Len(tmpl.toks) : tmpl.toks[k] = <<"\\", "/">>
  /\ \E k \in 1..Len(tmpl.toks) : tmpl.toks[k] = <<"\\", ".">>

\* The offsets of the characters of str after the cursor j that are not
\* whitespace.
Unconsumed(str, j) == {k \in j..(Len(str) - 1) : ~IsWhitespace(str[k + 1])}

Least(S) == CHOOSE k \in S : \A m \in S : k <= m

\* C8: parse returns an expression only if the whole query string has been
\* consumed up to trailing whitespace; whenever a complete top-level expression
\* is followed by other input, parse fails with an error that reports the byte
\* offset of that input (`size>1GB)` fails at the stray ')', byte 8).
C8_WholeInputConsumed ==
  [][ /\ (pc = "p_new" /\ tmpl.kind = "trail") => pc' = "p_or"
      /\ pc = "p_or" =>
           /\ (pc' = "p_ok") = (Unconsumed(s, i) = {})
           /\ pc' = "p_ok" => i' = Len(s)
           /\ Unconsumed(s, i) # {} =>
                /\ pc' = "p_failed"
                /\ parsed'.msg = "Unexpected trailing input at byte"
                /\ parsed'.byte = Some(Least(Unconsumed(s, i)))
           /\ s = <<"s", "i", "z", "e", ">", "1", "G", "B", ")">> => (pc' = "p_failed" /\ parsed'.byte = Some(8))
    ]_vars

\* C8's case: the parse of `size>1GB)` failed at the stray ')'.
C8_Witness ==
  /\ pc = "p_failed"
  /\ s = <<"s", "i", "z", "e", ">", "1", "G", "B", ")">>
  /\ parsed.msg = "Unexpected trailing input at byte"
  /\ parsed.byte = Some(8)

\* The errors of a syntactically invalid query: an unexpected token, an
\* unterminated regex literal, an unterminated parenthesis, a missing
\* comparison operator, an unrecognized predicate keyword, trailing input.
SyntaxErrors ==
  { "Expected char at byte",
    "Expected regex literal starting with '/' at byte",
    "Unterminated regex literal",
    "Unterminated escape in regex literal",
    "Expected ')' at byte",
    "Expected comparison operator after size at byte",
    "Expected predicate at byte",
    "Unexpected trailing input at byte" }

\* C9: every parse error raised for a syntactically invalid query carries the
\* byte offset where parsing failed.
C9_SyntaxErrorsCarryByte ==
  (pc = "p_failed" /\ parsed.msg \in SyntaxErrors) => parsed.byte.some

(***************************************************************************)
(* The ext: predicate on its own: the query `ext:` value is parsed and the *)
(* expression is evaluated on a record.                                    *)
(***************************************************************************)

\* Values of ext: in a query.
ExtValues == {<<"t", "x", "t">>, <<"T", "X", "T">>, <<"T", "x", "t">>, <<"g", "z">>, <<"t", "a", "r", ".", "g", "z">>, <<"b", "a", "s", "h", "r", "c">>, <<"d">>, <<"b", "a", "k">>}

\* Paths of records: with an extension in either case, with several dots,
\* without a dot, with a dot in a directory only, file names that start with
\* their only dot, a name that ends in a dot, a trailing slash and a path that
\* ends in the parent directory.
ExtPaths ==
  {<<"/", "t", "m", "p", "/", "f", "o", "o", ".", "t", "x", "t">>, <<"/", "t", "m", "p", "/", "F", "O", "O", ".", "T", "X", "T">>, <<"/", "t", "m", "p", "/", "a", "r", "c", "h", "i", "v", "e", ".", "t", "a", "r", ".", "g", "z">>, <<"f", "o", "o", ".", "t", "x", "t", ".", "b", "a", "k">>,
   <<"/", "t", "m", "p", "/", "n", "o", "e", "x", "t">>, <<"b", "a", "s", "h", "r", "c">>, <<"/", "t", "m", "p", ".", "d", "/", "n", "o", "e", "x", "t">>,
   <<"/", "h", "o", "m", "e", "/", ".", "b", "a", "s", "h", "r", "c">>, <<".", "g", "z">>, <<"/", "h", "o", "m", "e", "/", ".", "c", "o", "n", "f", "i", "g", ".", "d">>,
   <<"/", "t", "m", "p", "/", "t", "x", "t", ".">>, <<"x", ".", "d", "/">>, <<"a", ".", "d", "/", ".", ".">>}

ExtRecords == {[path |-> p, size |-> <<1>>] : p \in ExtPaths}

InitExt ==
  /\ pc = "p_new"
  /\ \E v \in ExtValues :
       /\ tmpl = [kind |-> "ext", value |-> v]
       /\ s = <<"e", "x", "t", ":">> \o v
  /\ i = 0
  /\ parsed = None
  /\ rec = None
  /\ verdict = None
  /\ evaluated = <<>>
  /\ args = [top |-> 1, index_read |-> TRUE, min_bytes |-> <<0>>,
             include |-> <<>>, exclude |-> <<>>, query |-> None]
  /\ matcher = None
  /\ top_files = <<>> /\ results = <<>> /\ offered = <<>> /\ nrecords = 0

NextExt ==
  \/ ParseOr
  \/ ParseFinish
  \/ \E r \in ExtRecords : EvalRecord(r)

SpecExt == InitExt /\ [][NextExt]_vars

\* The path without its trailing slashes.
RECURSIVE DropSlashes(_)
DropSlashes(path) ==
  IF path # <<>> /\ path[Len(path)] = "/"
    THEN DropSlashes(SubSeq(path, 1, Len(path) - 1))
    ELSE path

\* The offsets of the character c in the text.
Offsets(text, c) == {k \in 1..Len(text) : text[k] = c}

Greatest(S) == CHOOSE k \in S : \A m \in S : m <= k

\* The text after the last c of the text, the whole text when it has none.
AfterLast(text, c) ==
  IF Offsets(text, c) = {} THEN text
  ELSE SubSeq(text, Greatest(Offsets(text, c)) + 1, Len(text))

\* The basename of a path: what follows its last slash, trailing slashes apart.
Basename(path) == AfterLast(DropSlashes(path), "/")

\* C13 as stated: ext: is true for a path exactly when the basename contains a
\* dot and the suffix after the last dot of the basename equals the value,
\* compared case-insensitively; a path with no extension never matches.
C13_ExtIsSuffixAfterLastDot ==
  (pc = "p_eval" /\ tmpl.kind = "ext") =>
    verdict.val = (/\ Offsets(Basename(rec.path), ".") # {}
                   /\ EqIgnoreAsciiCase(AfterLast(Basename(rec.path), "."), tmpl.value))

\* C13 as amended: ext: is true for a path exactly when the basename contains
\* a dot, its last dot is not its first character, and the suffix after that
\* dot equals the value, compared without regard to ASCII case; a path whose
\* basename has no dot, or only a leading one, never matches.
C13_ExtIsSuffixAfterInnerDot ==
  (pc = "p_eval" /\ tmpl.kind = "ext") =>
    /\ parsed.val = Pred([tag |-> "ExtEq", ext |-> tmpl.value])
    /\ verdict.val = (/\ Offsets(Basename(rec.path), ".") # {}
                      /\ Greatest(Offsets(Basename(rec.path), ".")) > 1
                      /\ EqIgnoreAsciiCase(AfterLast(Basename(rec.path), "."), tmpl.value))
    /\ Offsets(Basename(rec.path), ".") = {} => verdict.val = FALSE

\* C13's case: ext:bashrc was evaluated on /home/.bashrc, whose only dot is the
\* first character of the basename, and did not match.
C13_Witness ==
  /\ pc = "p_eval"
  /\ tmpl.kind = "ext"
  /\ tmpl.value = <<"b", "a", "s", "h", "r", "c">>
  /\ rec.path = <<"/", "h", "o", "m", "e", "/", ".", "b", "a", "s", "h", "r", "c">>
  /\ verdict = Some(FALSE)

(***************************************************************************)
(* parse_size_bytes on its own: it is applied to a size literal written as *)
(* digits and a unit suffix, or to an input that is no size literal.       *)
(***************************************************************************)

\* The digits of the size literals: small numbers, leading zeros, and the
\* largest values that fit in a u64 at each unit, with their successors.
SizeDigits ==
  {<<"0">>, <<"1">>, <<"2">>, <<"5">>, <<"0", "0", "7">>, <<"5", "0", "0">>, <<"1", "0", "2", "4">>,
   <<"1", "6", "7", "7", "7", "2", "1", "5">>, <<"1", "6", "7", "7", "7", "2", "1", "6">>,
   <<"1", "7", "1", "7", "9", "8", "6", "9", "1", "8", "3">>, <<"1", "7", "1", "7", "9", "8", "6", "9", "1", "8", "4">>,
   <<"1", "7", "5", "9", "2", "1", "8", "6", "0", "4", "4", "4", "1", "5">>, <<"1", "7", "5", "9", "2", "1", "8", "6", "0", "4", "4", "4", "1", "6">>,
   <<"1", "8", "0", "1", "4", "3", "9", "8", "5", "0", "9", "4", "8", "1", "9", "8", "3">>, <<"1", "8", "0", "1", "4", "3", "9", "8", "5", "0", "9", "4", "8", "1", "9", "8", "4">>,
   <<"1", "8", "4", "4", "6", "7", "4", "4", "0", "7", "3", "7", "0", "9", "5", "5", "1", "6", "1", "5">>, <<"1", "8", "4", "4", "6", "7", "4", "4", "0", "7", "3", "7", "0", "9", "5", "5", "1", "6", "1", "6">>,
   <<"9", "9", "9", "9", "9", "9", "9", "9", "9", "9", "9", "9", "9", "9", "9", "9", "9", "9", "9", "9">>}

\* Unit suffixes with the power of 1024 they stand for, -1 for none.
SizeUnits ==
  { <<<<>>, 0>>, <<<<"b">>, 0>>, <<<<"B">>, 0>>,
    <<<<"k">>, 1>>, <<<<"K">>, 1>>, <<<<"k", "b">>, 1>>, <<<<"K", "B">>, 1>>, <<<<"K", "b">>, 1>>,
    <<<<"k", "i", "b">>, 1>>, <<<<"K", "i", "B">>, 1>>,
    <<<<"m">>, 2>>, <<<<"M">>, 2>>, <<<<"m", "b">>, 2>>, <<<<"M", "B">>, 2>>, <<<<"m", "i", "b">>, 2>>, <<<<"M", "i", "B">>, 2>>,
    <<<<"g">>, 3>>, <<<<"G">>, 3>>, <<<<"g", "b">>, 3>>, <<<<"G", "B">>, 3>>, <<<<"g", "i", "b">>, 3>>, <<<<"G", "i", "B">>, 3>>,
    <<<<"t">>, 4>>, <<<<"T">>, 4>>, <<<<"t", "b">>, 4>>, <<<<"T", "B">>, 4>>, <<<<"t", "i", "b">>, 4>>, <<<<"T", "i", "B">>, 4>>,
    <<<<"x", "b">>, -1>>, <<<<"p">>, -1>>, <<<<"k", "i">>, -1>>, <<<<"k", "b", "b">>, -1>>, <<<<"b", "y", "t", "e", "s">>, -1>> }

\* Inputs that are empty or do not start with a digit.
NotSizes == {<<>>, <<" ">>, <<"b">>, <<"k", "b">>, <<"G", "B", "1">>, <<"-", "1">>, <<"+", "1">>, <<".", "5", "k">>, <<"x", "5">>}

InitSize ==
  /\ pc = "z_new"
  /\ \/ \E d \in SizeDigits, u \in SizeUnits :
          /\ tmpl = [kind |-> "size", digits |-> d, power |-> u[2]]
          /\ s = d \o u[1]
     \/ \E n \in NotSizes :
          /\ tmpl = [kind |-> "none"]
          /\ s = n
  /\ i = 0
  /\ parsed = None
  /\ rec = None
  /\ verdict = None
  /\ evaluated = <<>>
  /\ args = [top |-> 1, index_read |-> TRUE, min_bytes |-> <<0>>,
             include |-> <<>>, exclude |-> <<>>, query |-> None]
  /\ matcher = None
  /\ top_files = <<>> /\ results = <<>> /\ offered = <<>> /\ nrecords = 0

\* parse_size_bytes(&s)
ParseSize ==
  /\ pc = "z_new"
  /\ parsed' = parse_size_bytes(s)
  /\ pc' = "z_done"
  /\ UNCHANGED <<args, matcher, top_files, results, offered, nrecords,
                 s, i, tmpl, rec, verdict, evaluated>>

NextSize == ParseSize

SpecSize == InitSize /\ [][NextSize]_vars

\* 1024 to the powers 0 to 4, in decimal digits.
Multipliers ==
  << <<1>>, <<1, 0, 2, 4>>, <<1, 0, 4, 8, 5, 7, 6>>, <<1, 0, 7, 3, 7, 4, 1, 8, 2, 4>>,
     <<1, 0, 9, 9, 5, 1, 1, 6, 2, 7, 7, 7, 6>> >>

\* The number the decimal digits d write.
DigitsValue(d) == StripZeros([k \in 1..Len(d) |-> Code(d[k]) - 48])

\* C10: for digits followed by an optional unit suffix in any case (none or b,
\* k/kb/kib, m/mb/mib, g/gb/gib, t/tb/tib: 1024 to the power 0 to 4),
\* parse_size_bytes returns digits x multiplier when that fits in a u64 and an
\* error, never a wrapped value, when it does not (16777215TiB fits and
\* 16777216TiB, which is 2^64, does not); an empty input, a first character
\* that is no digit and an unknown suffix such as `5xb` are errors; `1GB` is
\* 1073741824, `500` is 500 and `2KiB` is 2048.
C10_SizeIsDigitsTimesUnit ==
  pc = "z_done" =>
    /\ tmpl.kind = "none" => ~parsed.ok
    /\ (tmpl.kind = "size" /\ tmpl.power < 0) => ~parsed.ok
    /\ (tmpl.kind = "size" /\ tmpl.power >= 0) =>
         IF FitsU64(NumMul(DigitsValue(tmpl.digits), Multipliers[tmpl.power + 1]))
           THEN parsed = Ok(NumMul(DigitsValue(tmpl.digits), Multipliers[tmpl.power + 1]))
           ELSE ~parsed.ok
    /\ s = <<"1", "G", "B">> => parsed = Ok(<<1, 0, 7, 3, 7, 4, 1, 8, 2, 4>>)
    /\ s = <<"5", "0", "0">> => parsed = Ok(<<5, 0, 0>>)
    /\ s = <<"2", "K", "i", "B">> => parsed = Ok(<<2, 0, 4, 8>>)
    /\ s = <<"5", "x", "b">> => ~parsed.ok
    /\ s = <<"1", "6", "7", "7", "7", "2", "1", "5", "T", "i", "B">> =>
         parsed = Ok(<<1, 8, 4, 4, 6, 7, 4, 2, 9, 7, 4, 1, 9, 7, 9, 2, 3, 8, 4, 0>>)
    /\ s = <<"1", "6", "7", "7", "7", "2", "1", "6", "T", "i", "B">> => ~parsed.ok
    /\ s = <<"1", "8", "0", "1", "4", "3", "9", "8", "5", "0", "9", "4", "8", "1", "9", "8", "3", "k">> =>
         parsed = Ok(<<1, 8, 4, 4, 6, 7, 4, 4, 0, 7, 3, 7, 0, 9, 5, 5, 0, 5, 9, 2>>)
    /\ s = <<"1", "8", "4", "4", "6", "7", "4", "4", "0", "7", "3", "7", "0", "9", "5", "5", "1", "6", "1", "5">> => parsed = Ok(U64Max)
    /\ s = <<"1", "8", "4", "4", "6", "7", "4", "4", "0", "7", "3", "7", "0", "9", "5", "5", "1", "6", "1", "6">> => ~parsed.ok

\* C10's case: digits that fit in a u64 with a unit that takes the product
\* past it, rejected as an overflow.
C10_Witness ==
  /\ pc = "z_done"
  /\ s = <<"1", "6", "7", "7", "7", "2", "1", "6", "T", "i", "B">>
  /\ ~parsed.ok
  /\ parsed.msg = "size overflow"

====
